---- MODULE Spec2Model ----
(***************************************************************************)
(* Model of the syllabus analyzer's two cores:                             *)
(*   - backend/primo_integration.py : PrimoAPIClient.search_by_metadata    *)
(*     and its helpers (the availability matcher), specification Spec;     *)
(*   - scripts/syllabus_extractor.py : process_pdfs_batch and the AI /     *)
(*     heuristic extractors (the extraction pipeline), SpecExtract.        *)
(* Python values are modelled as follows: a dict is a record whose fields  *)
(* hold ABSENT when the key is missing, None/null is NONE, a float score   *)
(* is its decimal string, a list is a sequence.                            *)
(***************************************************************************)
EXTENDS Integers, Sequences, FiniteSets, TLC

VARIABLES
    \* ---- availability matcher (PrimoAPIClient) ----
    session,          \* self.session: "none" | "open" | "closed"
    api_key,          \* self.api_key is set (truthy)
    metadata,         \* the argument of search_by_metadata
    pc,               \* position of the search_by_metadata coroutine
    idx,              \* index of the reading material the loop is at
    results,          \* local list `results`
    library_matches,  \* local list `library_matches`
    lm_item,          \* history: the item index each library_matches entry came from
    queries,          \* history: every session.get issued, with the item it was for
    resp_log,         \* history: the outcome of each session.get, in query order
    report,           \* the returned dict, or NoReport
    raised,           \* the exception that escaped search_by_metadata, or "none"
    \* ---- extraction pipeline (process_pdfs_batch) ----
    client,           \* module-level OpenAI client is initialised
    pdf_files,        \* the documents of the batch
    di,               \* index of the document being processed
    epc,              \* position inside the loop body of process_pdfs_batch
    text,             \* local `text` of the loop body
    combined_text,    \* local `combined_text` of the loop body
    data,             \* local `data` of the loop body
    rows,             \* local list `rows`
    row_doc,          \* history: the document index each row came from
    ai_calls,         \* history: per document, number of call_llm_for_metadata calls
    heur_calls,       \* history: per document, number of heuristic_parse calls
    ai_result,        \* history: per document, what call_llm_for_metadata did
    heur_arg,         \* history: per document, the text heuristic_parse was given
    ai_arg,           \* history: per document, the text call_llm_for_metadata was given
    \* ---- convenience functions (check_primo_availability, ..._metadata) ----
    bentry,           \* the convenience function that is called
    binput,           \* its argument: the record, or the metadata_list
    bkey,             \* client.api_key is set (truthy)
    bsession,         \* client.session: "none" | "open" | "closed"
    bopened,          \* history: number of ClientSession objects created
    btasks,           \* the coroutines of the call, one per record
    bqueries,         \* history: every session.get issued, with the session state
    bdone,            \* history: the order in which the coroutines finished
    bret,             \* what the convenience function returned or raised
    bpc,              \* position inside the convenience function
    \* ---- heuristic_parse applied to a text ----
    htext,            \* the argument
    hout,             \* history: the dict returned by each call, in call order
    hpc,              \* "start" | "done"
    \* ---- _check_availability applied to a result document ----
    adoc,             \* the document
    aout,             \* the judgment and the status shown to the caller
    apc,              \* "start" | "done"
    \* ---- PDF downloader (UFLSyllabiDownloader) ----
    dpdfs,            \* all_pdf_links: the pdf_info dicts that are submitted
    ddisk,            \* the file names that exist in download_folder
    downloaded_files, \* self.downloaded_files
    dworkers,         \* per submitted download_pdf call: position and local filename
    dreleased         \* history: the discards of the except handler

mvars == <<session, api_key, metadata, pc, idx, results, library_matches,
           lm_item, queries, resp_log, report, raised>>
evars == <<client, pdf_files, di, epc, text, combined_text, data, rows, row_doc,
           ai_calls, heur_calls, ai_result, heur_arg, ai_arg>>
bvars == <<bentry, binput, bkey, bsession, bopened, btasks, bqueries, bdone, bret, bpc>>
hvars == <<htext, hout, hpc>>
avars == <<adoc, aout, apc>>
dvars == <<dpdfs, ddisk, downloaded_files, dworkers, dreleased>>
xvars == <<bvars, hvars, avars, dvars>>
vars == <<mvars, evars, xvars>>

\* ---- bounds ----
MaxItems == 2      \* longest reading list
MaxFiles == 2      \* most documents in a batch

ABSENT == "<absent>"
NONE == "<None>"

(***************************************************************************)
(* Python helpers                                                          *)
(***************************************************************************)
\* dict.get(key, default)
Get(d, key, default) == IF d[key] = ABSENT THEN default ELSE d[key]

\* bool(s) of a str-or-None value
Truthy(s) == s # ABSENT /\ s # NONE /\ s # ""

\* str.lower() on the strings of the model's universe
Lower(s) ==
    CASE s = "Equipment" -> "equipment"
      [] s = "EQUIPMENT" -> "equipment"
      [] s = "Required" -> "required"
      [] s = "Unknown" -> "unknown"
      [] s = "UNKNOWN" -> "unknown"
      [] s = "None" -> "none"
      [] s = "Lab Goggles" -> "lab goggles"
      [] s = "Course Reader" -> "course reader"
      [] OTHER -> s

\* _clean_search_term on the strings of the model's universe
\* (values computed by the code's regular expressions and quote_plus)
_clean_search_term(term) ==
    IF ~Truthy(term) THEN ""
    ELSE CASE term = "Psychology, 5th edition, by Pearson" -> "Psychology%2C+%2C"
           [] term = "Introduction to Psychology by Myers" -> "Introduction+to+Psychology"
           [] term = "Course Reader" -> "Course+Reader"
           [] term = "Lab Goggles" -> "Lab+Goggles"
           [] OTHER -> term

(***************************************************************************)
(* Reading materials                                                       *)
(***************************************************************************)
Mat(title, creator, type, media_type, requirement, url) ==
    [kind |-> "dict", title |-> title, creator |-> creator, type |-> type,
     media_type |-> media_type, requirement |-> requirement, url |-> url]

StrMat(s) ==
    [kind |-> "str", title |-> s, creator |-> ABSENT, type |-> ABSENT,
     media_type |-> ABSENT, requirement |-> ABSENT, url |-> ABSENT]

OtherMat ==
    [kind |-> "other", title |-> ABSENT, creator |-> ABSENT, type |-> ABSENT,
     media_type |-> ABSENT, requirement |-> ABSENT, url |-> ABSENT]

Materials ==
    { Mat("Lab Goggles", ABSENT, ABSENT, ABSENT, "Equipment", ABSENT),
      Mat("Lab Goggles", ABSENT, ABSENT, "EQUIPMENT", "required",
          "https://example.com/goggles"),
      Mat("Course Reader", ABSENT, "books", "equipment", "required", ABSENT),
      Mat("Course Reader", "Passer", ABSENT, "websites", "required",
          "https://example.com/book"),
      Mat("Psychology, 5th edition, by Pearson", "Passer", ABSENT, "books",
          "Required", "Unknown"),
      Mat("", ABSENT, ABSENT, "books", ABSENT, "None"),
      Mat("Course Reader", ABSENT, ABSENT, "books", NONE, ABSENT),
      StrMat("Introduction to Psychology by Myers"),
      OtherMat }

RECURSIVE SeqsUpTo(_, _)
SeqsUpTo(S, n) ==
    IF n = 0 THEN {<<>>}
    ELSE LET shorter == SeqsUpTo(S, n - 1)
         IN shorter \cup {Append(s, x) : s \in {t \in shorter : Len(t) = n - 1}, x \in S}

\* metadata arguments: not a dict, a dict without the key, a dict with a list
MetaNotDict == [kind |-> "notdict", has_rm |-> FALSE, reading_materials |-> <<>>]
MetaNoKey == [kind |-> "dict", has_rm |-> FALSE, reading_materials |-> <<>>]
MetaWith(rm) == [kind |-> "dict", has_rm |-> TRUE, reading_materials |-> rm]
Metadatas ==
    {MetaNotDict, MetaNoKey} \cup {MetaWith(rm) : rm \in SeqsUpTo(Materials, MaxItems)}

\* material.get('type', material.get('media_type', ''))  (line 76, before .lower())
RawMaterialType(m) == Get(m, "type", Get(m, "media_type", ""))
RawRequirement(m) == Get(m, "requirement", "")

\* lines 74-78 raise AttributeError when .lower() is applied to None
ItemRaises(m) ==
    m.kind = "dict" /\ (RawMaterialType(m) = NONE \/ RawRequirement(m) = NONE)

\* (faulty variant of IsEquipment: the skip rule is missing)
NeverEquipment(m) == FALSE

\* Filter 1 (line 81)
IsEquipment(m) ==
    /\ m.kind = "dict"
    /\ \/ Lower(RawRequirement(m)) = "equipment"
       \/ Lower(RawMaterialType(m)) = "equipment"

\* Filter 2 (line 85)
HasResolvedUrl(m) ==
    /\ m.kind = "dict"
    /\ Truthy(Get(m, "url", ""))
    /\ Lower(Get(m, "url", "")) \notin {"unknown", "", "none"}

\* lines 74-75 and 104-105
TitleOf(m) == IF m.kind = "dict" THEN Get(m, "title", "") ELSE m.title
AuthorOf(m) == IF m.kind = "dict" THEN Get(m, "creator", "") ELSE ""

\* the item falls through to Filter 3 with a truthy title (line 110)
ReachesSearch(m) ==
    /\ m.kind \in {"dict", "str"}
    /\ ~IsEquipment(m)
    /\ ~HasResolvedUrl(m)
    /\ Truthy(TitleOf(m))

\* (faulty variant of UrlEntry: the item is recorded as not found)
UrlEntryScoreZero(m) ==
    [originalQuery |-> TitleOf(m), matchScore |-> "0.0", matches |-> <<>>]

\* lines 86-100
UrlEntry(m) ==
    [originalQuery |-> TitleOf(m),
     matchScore |-> "1.0",
     matches |-> << [title |-> TitleOf(m),
                     authors |-> IF Truthy(AuthorOf(m)) THEN <<AuthorOf(m)>> ELSE <<>>,
                     availability |-> "available",
                     format |-> "Online Resource",
                     location |-> "Online",
                     link |-> Get(m, "url", ""),
                     callNumber |-> NONE,
                     dueDate |-> NONE,
                     coverImage |-> NONE] >>]

\* (faulty variant of NotFoundEntry: the entry keeps the score of a match)
NotFoundEntryScored(title) ==
    [originalQuery |-> title, matchScore |-> "0.8", matches |-> <<>>]

\* lines 140-144 and 147-151
NotFoundEntry(title) ==
    [originalQuery |-> title, matchScore |-> "0.0", matches |-> <<>>]

(***************************************************************************)
(* Bibliographic responses (the external capability behind session.get)    *)
(***************************************************************************)
\* a display field that may be a list, a string or missing
FList(items) == [tag |-> "list", items |-> items, s |-> ""]
FStr(str) == [tag |-> "str", items |-> <<>>, s |-> str]
FAbsent == [tag |-> "absent", items |-> <<>>, s |-> ""]

\* a holding: its location dict (mainLocation, or ABSENT when there is no
\* location) and the availability status of each of its items
Holding(mainLocation, items) == [mainLocation |-> mainLocation, items |-> items]

Doc(pnx, title, creator, type, delcategory, link, holdings) ==
    [pnx |-> pnx, title |-> title, creator |-> creator, type |-> type,
     delcategory |-> delcategory, link |-> link, holdings |-> holdings]

DocOnline ==
    Doc("dict", FList(<<"Psychology", "Psychology 5e">>), FList(<<"Passer">>),
        FList(<<"book">>), <<"Online Resource">>,
        <<"https://library.example.edu/1">>, <<>>)
DocPhysical ==
    Doc("dict", FStr("Mind and Behaviour"), FAbsent, FAbsent, <<>>, <<>>,
        <<Holding("King Library", <<"available", "checked_out">>),
          Holding("King Library", <<"available">>)>>)
DocBare ==
    Doc("dict", FAbsent, FList(<<>>), FStr("article"), <<>>, <<>>,
        <<Holding(ABSENT, <<"checked_out">>)>>)
\* a document whose "pnx" is null: pnx.get raises inside _parse_search_results
DocBad == Doc(NONE, FAbsent, FAbsent, FAbsent, <<>>, <<>>, <<>>)

\* what `async with self.session.get(...)` can do
RespException == [kind |-> "exception", status |-> 0, json |-> "none", docs |-> <<>>]
RespStatus(st) == [kind |-> "response", status |-> st, json |-> "none", docs |-> <<>>]
RespNotDict == [kind |-> "response", status |-> 200, json |-> "notdict", docs |-> <<>>]
RespDocs(docs) == [kind |-> "response", status |-> 200, json |-> "dict", docs |-> docs]

Responses ==
    { RespException, RespStatus(500), RespNotDict,
      RespDocs(<<>>),
      RespDocs(<<DocOnline>>),
      RespDocs(<<DocPhysical, DocBare>>),
      RespDocs(<<DocBare, DocOnline, DocPhysical, DocOnline>>),
      RespDocs(<<DocOnline, DocBad>>),
      RespDocs(<<DocPhysical, DocOnline, DocBare, DocBad>>) }

(***************************************************************************)
(* _check_availability, _extract_links, _parse_search_results              *)
(***************************************************************************)
RECURSIVE Dedup(_)
Dedup(s) ==
    IF s = <<>> THEN <<>>
    ELSE LET front == Dedup(SubSeq(s, 1, Len(s) - 1))
             last == s[Len(s)]
         IN IF \E i \in 1..Len(front) : front[i] = last THEN front
            ELSE Append(front, last)

RECURSIVE CountAvail(_)
CountAvail(items) ==
    IF items = <<>> THEN 0
    ELSE (IF Head(items) = "available" THEN 1 ELSE 0) + CountAvail(Tail(items))

RECURSIVE PhysicalCopies(_)
PhysicalCopies(holdings) ==
    IF holdings = <<>> THEN 0
    ELSE CountAvail(Head(holdings).items) + PhysicalCopies(Tail(holdings))

\* lines 369-375: one location name per holding that has a location
RECURSIVE LocationNames(_)
LocationNames(holdings) ==
    IF holdings = <<>> THEN <<>>
    ELSE (IF Head(holdings).mainLocation = ABSENT THEN <<>>
          ELSE <<Head(holdings).mainLocation>>) \o LocationNames(Tail(holdings))

\* (faulty variant of _check_availability: a delivery link does not make the
\* document available, and copies are counted per holding)
_check_availability_physical(doc) ==
    [available |-> \/ doc.delcategory # <<>>
                   \/ PhysicalCopies(doc.holdings) > 0,
     locations |-> Dedup(LocationNames(doc.holdings)),
     online_access |-> doc.link # <<>>,
     physical_copies |-> Len(doc.holdings),
     delivery_category |-> doc.delcategory]

\* lines 345-384
_check_availability(doc) ==
    [available |-> \/ doc.delcategory # <<>>
                   \/ doc.link # <<>>
                   \/ PhysicalCopies(doc.holdings) > 0,
     locations |-> Dedup(LocationNames(doc.holdings)),
     online_access |-> doc.link # <<>>,
     physical_copies |-> PhysicalCopies(doc.holdings),
     delivery_category |-> doc.delcategory]

\* lines 398-411: a link is kept when its linkURL is non-empty
RECURSIVE _extract_links(_)
_extract_links(link) ==
    IF link = <<>> THEN <<>>
    ELSE (IF Head(link) # "" THEN <<Head(link)>> ELSE <<>>) \o _extract_links(Tail(link))

\* lines 284-299: first element of a non-empty list, the string, else "Unknown"
FirstOrUnknown(field) ==
    IF field.tag = "list" /\ field.items # <<>> THEN field.items[1]
    ELSE IF field.tag = "str" THEN field.s
    ELSE "Unknown"

\* lines 302-304: default ["Unknown"]; a non-empty list gives its first element,
\* anything else is kept as it is
ResourceType(field) ==
    IF field.tag = "absent" THEN "Unknown"
    ELSE IF field.tag = "list" /\ field.items # <<>> THEN field.items[1]
    ELSE IF field.tag = "str" THEN field.s
    ELSE "[]"

\* lines 312-322
PrimoResult(doc) ==
    [title |-> FirstOrUnknown(doc.title),
     creator |-> FirstOrUnknown(doc.creator),
     type |-> ResourceType(doc.type),
     availability |-> _check_availability(doc),
     links |-> _extract_links(doc.link)]

Min(a, b) == IF a < b THEN a ELSE b

\* docs[:3]  (line 277)
TopLimit == 3

\* (faulty variant of TopDocs: every document of the response is read)
TopDocsAll(docs) == docs

TopDocs(docs) == SubSeq(docs, 1, Min(TopLimit, Len(docs)))

\* lines 264-340
_parse_search_results(resp, original_title, author) ==
    IF resp.json # "dict"
    THEN [found |-> FALSE, title |-> original_title, results |-> <<>>,
          note |-> "Error parsing results"]
    ELSE IF resp.docs = <<>>
    THEN [found |-> FALSE, title |-> original_title, results |-> <<>>,
          note |-> "No results found"]
    ELSE IF \E i \in 1..Len(TopDocs(resp.docs)) : TopDocs(resp.docs)[i].pnx = NONE
    THEN [found |-> FALSE, title |-> original_title, results |-> <<>>,
          note |-> "Error parsing results"]
    ELSE [found |-> TRUE, title |-> original_title,
          results |-> [i \in 1..Len(TopDocs(resp.docs)) |-> PrimoResult(TopDocs(resp.docs)[i])],
          note |-> "found"]

\* lines 183-201: the query, one part per search term
BuildQuery(title, author) ==
    (IF Truthy(title) THEN <<[field |-> "title", term |-> _clean_search_term(title)]>>
     ELSE <<>>)
    \o (IF Truthy(author) THEN <<[field |-> "creator", term |-> _clean_search_term(author)]>>
        ELSE <<>>)

\* lines 219-236: what _search_single_item returns for the outcome of session.get
SearchOutcome(resp, title, author) ==
    IF resp.kind = "exception"
    THEN [found |-> FALSE, title |-> title, results |-> <<>>, note |-> "exception"]
    ELSE IF resp.status # 200
    THEN [found |-> FALSE, title |-> title, results |-> <<>>, note |-> "API request failed"]
    ELSE _parse_search_results(resp, title, author)

(***************************************************************************)
(* search_by_metadata: the transformation to library matches               *)
(***************************************************************************)
\* lines 416-424
_determine_availability_status(primo_result) ==
    IF primo_result.availability.available THEN "available"
    ELSE IF primo_result.availability.online_access THEN "available"
    ELSE "unavailable"

\* lines 426-435
_extract_location_info(primo_result) ==
    IF primo_result.availability.locations # <<>>
    THEN primo_result.availability.locations[1]
    ELSE IF primo_result.availability.online_access THEN "Online"
    ELSE "Unknown"

\* lines 437-443
_extract_access_link(primo_result) ==
    IF primo_result.links # <<>> THEN primo_result.links[1] ELSE "#"

\* lines 120-130
LibMatch(primo_result) ==
    [title |-> primo_result.title,
     authors |-> IF Truthy(primo_result.creator) THEN <<primo_result.creator>> ELSE <<>>,
     availability |-> _determine_availability_status(primo_result),
     format |-> primo_result.type,
     location |-> _extract_location_info(primo_result),
     link |-> _extract_access_link(primo_result),
     callNumber |-> NONE,
     dueDate |-> NONE,
     coverImage |-> NONE]

\* (faulty variant of SearchEntry: the test at line 117 is missing)
FoundEntryAlways(title, search_result) ==
    [originalQuery |-> title, matchScore |-> "0.8",
     matches |-> [i \in 1..Len(search_result.results) |-> LibMatch(search_result.results[i])]]

\* lines 117-144: the entry appended for a search result
SearchEntry(title, search_result) ==
    IF search_result.found /\ search_result.results # <<>>
    THEN [originalQuery |-> title, matchScore |-> "0.8",
          matches |-> [i \in 1..Len(search_result.results) |->
                          LibMatch(search_result.results[i])]]
    ELSE NotFoundEntry(title)

(***************************************************************************)
(* search_by_metadata: the returned dicts                                  *)
(* `keys` is the set of keys the dict has; a field whose key is missing    *)
(* holds a filler ("" / 0 / <<>>) that no formula reads.                   *)
(***************************************************************************)
NoReport ==
    [keys |-> {}, found |-> FALSE, error |-> "", metadata |-> MetaNoKey,
     library_matches |-> <<>>, results |-> <<>>, total_materials |-> 0,
     found_materials |-> 0]

ErrorKeys == {"found", "error", "metadata", "library_matches"}
FullKeys == {"found", "results", "metadata", "total_materials", "found_materials",
             "library_matches"}

\* (faulty variant of NoMaterialsReport: an empty list falls through to line 153)
NoMaterialsReportComplete(md) ==
    [keys |-> FullKeys, found |-> FALSE, error |-> "", metadata |-> md,
     library_matches |-> <<>>, results |-> <<>>, total_materials |-> 0,
     found_materials |-> 0]

\* lines 61-66
NoMaterialsReport(md) ==
    [keys |-> ErrorKeys, found |-> FALSE,
     error |-> "No reading materials found in metadata", metadata |-> md,
     library_matches |-> <<>>, results |-> <<>>, total_materials |-> 0,
     found_materials |-> 0]

\* (faulty variant of ExceptReport: the accumulated matches are returned)
ExceptReportPartial(md, e) ==
    [keys |-> ErrorKeys, found |-> FALSE, error |-> e, metadata |-> md,
     library_matches |-> library_matches, results |-> <<>>, total_materials |-> 0,
     found_materials |-> 0]

\* lines 162-168
ExceptReport(md, e) ==
    [keys |-> ErrorKeys, found |-> FALSE, error |-> e, metadata |-> md,
     library_matches |-> <<>>, results |-> <<>>, total_materials |-> 0,
     found_materials |-> 0]

RECURSIVE CountFound(_)
CountFound(rs) ==
    IF rs = <<>> THEN 0
    ELSE (IF Head(rs).found THEN 1 ELSE 0) + CountFound(Tail(rs))

\* lines 153-160
FullReport(md, rs, lms) ==
    [keys |-> FullKeys, found |-> CountFound(rs) > 0, error |-> "", metadata |-> md,
     library_matches |-> lms, results |-> rs,
     total_materials |-> Len(md.reading_materials),
     found_materials |-> CountFound(rs)]

(***************************************************************************)
(* Documents and normalized text (syllabus_extractor.py)                   *)
(* A text is a sequence of lines; a line records what the regular          *)
(* expressions of the heuristic parser can see in it.                      *)
(***************************************************************************)
Line(str, sem, year, code, email, instr, len, upper) ==
    [s |-> str,          \* the stripped line
     sem |-> sem,        \* first word matching SEMESTER_RE, as written
     year |-> year,      \* first match of YEAR_RE
     code |-> code,      \* first match of COURSE_CODE_RE
     email |-> email,    \* labels of the domain of the first EMAIL_RE match
     instr |-> instr,    \* group 1 of the first INSTRUCTOR_RE match
     len |-> len,        \* len(line.strip())
     upper |-> upper]    \* any(c.isupper() for c in line)

PlainLine(str, len, upper) == Line(str, ABSENT, ABSENT, ABSENT, <<>>, ABSENT, len, upper)

LTitle == PlainLine("Introduction to Psychology", 26, TRUE)
LTerm == Line("FALL 2024", "FALL", "2024", ABSENT, <<>>, ABSENT, 9, TRUE)
LCode == Line("PSY 101 Spring 2023", "Spring", "2023", "PSY 101", <<>>, ABSENT, 19, TRUE)
LInstr == Line("Instructor: Jane Doe ", ABSENT, ABSENT, ABSENT, <<>>, "Jane Doe ", 20, TRUE)
LEmail == Line("jdoe@cs.ufl.edu", ABSENT, ABSENT, ABSENT, <<"cs", "ufl", "edu">>,
               ABSENT, 15, FALSE)
LEmailPlain == Line("office: jdoe@miamioh.edu", ABSENT, ABSENT, ABSENT, <<"miamioh", "edu">>,
                    ABSENT, 24, FALSE)
LLower == Line("offered every spring", "spring", ABSENT, ABSENT, <<>>, ABSENT, 20, FALSE)
LBlank == PlainLine("", 0, FALSE)
LTablesHeading == PlainLine("# TABLES (markdown format)", 26, TRUE)
LTableA == Line("| Week | Reading | Winter 2025 |", "Winter", "2025", ABSENT, <<>>,
                ABSENT, 33, TRUE)
LTableB == PlainLine("| week | topic |", 16, FALSE)
LTableC == PlainLine("| Grade | Percent |", 19, TRUE)

\* a table region of a page: to_pandas raises on it, or it is empty after
\* dropna, or it renders to a markdown block
Table(status, md) == [status |-> status, md |-> md]
Page(lines, find_fails, tables) ==
    [lines |-> lines, find_fails |-> find_fails, tables |-> tables]
Pdf(name, pages) == [name |-> name, pages |-> pages]

PdfFull ==
    Pdf("BIO101_Fall2023_Smith.pdf",
        << Page(<<LTitle, LCode, LInstr, LEmail>>, FALSE, <<Table("ok", LTableA)>>) >>)
PdfBlank == Pdf("scan.pdf", << Page(<<LBlank>>, FALSE, <<>>) >>)
PdfTwoPages ==
    Pdf("syllabus.pdf",
        << Page(<<LTerm>>, TRUE, <<Table("ok", LTableA)>>),
           Page(<<LEmail>>, FALSE,
                <<Table("empty", LTableB), Table("ok", LTableB),
                  Table("raises", LTableA)>>) >>)
\* tables on the first and the third page, table detection fails on the second
PdfTables ==
    Pdf("tables.pdf",
        << Page(<<LTitle>>, FALSE, <<Table("ok", LTableA)>>),
           Page(<<LCode>>, TRUE, <<Table("ok", LTableB)>>),
           Page(<<LInstr>>, FALSE, <<Table("ok", LTableB), Table("ok", LTableC)>>) >>)
Pdfs == {PdfFull, PdfBlank, PdfTwoPages, PdfTables}

\* lines 54-59: the page texts in page order, newline-joined
RECURSIVE extract_text_from_pdf(_)
extract_text_from_pdf(pages) ==
    IF pages = <<>> THEN <<>>
    ELSE Head(pages).lines \o extract_text_from_pdf(Tail(pages))

\* lines 68-73: the tables of one page up to the first one that raises
RECURSIVE PageTables(_)
PageTables(tables) ==
    IF tables = <<>> \/ Head(tables).status = "raises" THEN <<>>
    ELSE (IF Head(tables).status = "ok" THEN <<Head(tables).md>> ELSE <<>>)
         \o PageTables(Tail(tables))

\* lines 63-77
RECURSIVE extract_tables_from_pdf(_)
extract_tables_from_pdf(pages) ==
    IF pages = <<>> THEN <<>>
    ELSE (IF Head(pages).find_fails THEN <<>> ELSE PageTables(Head(pages).tables))
         \o extract_tables_from_pdf(Tail(pages))

\* "\n\n".join(table_markdowns)
RECURSIVE JoinBlank(_)
JoinBlank(blocks) ==
    IF blocks = <<>> THEN <<>>
    ELSE IF Len(blocks) = 1 THEN blocks
    ELSE <<Head(blocks), LBlank>> \o JoinBlank(Tail(blocks))

\* (faulty variant of CombinedText: the table blocks are put in front)
CombinedTextTablesFirst(txt, table_markdowns) ==
    IF table_markdowns = <<>> THEN txt
    ELSE <<LTablesHeading>> \o JoinBlank(table_markdowns) \o <<LBlank>> \o txt

\* lines 225-227
CombinedText(txt, table_markdowns) ==
    IF table_markdowns = <<>> THEN txt
    ELSE txt \o <<LBlank, LTablesHeading>> \o JoinBlank(table_markdowns)

(***************************************************************************)
(* heuristic_parse                                                         *)
(***************************************************************************)
\* str.upper() and str.strip() on the strings of the model's universe
Upper(str) ==
    CASE str = "cs" -> "CS"
      [] str = "ufl" -> "UFL"
      [] str = "edu" -> "EDU"
      [] str = "miamioh" -> "MIAMIOH"
      [] OTHER -> str
Strip(str) ==
    CASE str = "Jane Doe " -> "Jane Doe"
      [] OTHER -> str

\* the pattern named f matches in line l
Matches(l, f) == IF f = "email" THEN l.email # <<>> ELSE l[f] # ABSENT

\* re.search: the first line in which the pattern matches, 0 when there is none
FirstLine(txt, f) ==
    IF \E i \in 1..Len(txt) : Matches(txt[i], f)
    THEN CHOOSE i \in 1..Len(txt) :
            Matches(txt[i], f) /\ \A j \in 1..(i - 1) : ~Matches(txt[j], f)
    ELSE 0

\* line 164 and line 166
NameScanLines == 10
NameMinLen == 10
NameMaxLen == 100
IsNameLine(l) == NameMinLen < l.len /\ l.len < NameMaxLen /\ l.upper

\* lines 163-168: the first qualifying line among the first ten, 0 when none
FirstNameLine(txt) ==
    IF \E i \in 1..Len(txt) : IsNameLine(txt[i])
    THEN CHOOSE i \in 1..Len(txt) :
            IsNameLine(txt[i]) /\ \A j \in 1..(i - 1) : ~IsNameLine(txt[j])
    ELSE 0

\* a metadata dict: `keys` is the set of keys it has
Dict(keys, year, semester, class_name, class_number, instructor, university, main_topic, reading_materials) ==
    [kind |-> "dict", keys |-> keys, year |-> year, semester |-> semester,
     class_name |-> class_name, class_number |-> class_number,
     instructor |-> instructor, university |-> university,
     main_topic |-> main_topic, reading_materials |-> reading_materials,
     filename |-> ABSENT, reading_materials_json |-> <<>>]

RequiredKeys ==
    {"year", "semester", "class_name", "class_number", "instructor", "university",
     "main_topic", "reading_materials"}

\* (faulty variant of heuristic_parse: a pattern without a match gives None,
\* as extract_year_semester_from_filename does)
heuristic_parse_none(txt) ==
    LET first10 == SubSeq(txt, 1, Min(NameScanLines, Len(txt)))
        si == FirstLine(txt, "sem")
        yi == FirstLine(txt, "year")
        ci == FirstLine(txt, "code")
        ei == FirstLine(txt, "email")
        ii == FirstLine(txt, "instr")
        ni == FirstNameLine(first10)
    IN Dict(RequiredKeys,
            IF yi = 0 THEN NONE ELSE txt[yi].year,
            IF si = 0 THEN NONE ELSE txt[si].sem,
            IF ni = 0 THEN "Unknown" ELSE first10[ni].s,
            IF ci = 0 THEN "Unknown" ELSE txt[ci].code,
            IF ii = 0 THEN "Unknown" ELSE Strip(txt[ii].instr),
            IF ei = 0 \/ Len(txt[ei].email) < 2 THEN "Unknown"
            ELSE Upper(txt[ei].email[1]),
            "Unknown",
            <<>>)

\* lines 150-186
heuristic_parse(txt) ==
    LET first10 == SubSeq(txt, 1, Min(NameScanLines, Len(txt)))
        si == FirstLine(txt, "sem")
        yi == FirstLine(txt, "year")
        ci == FirstLine(txt, "code")
        ei == FirstLine(txt, "email")
        ii == FirstLine(txt, "instr")
        ni == FirstNameLine(first10)
    IN Dict(RequiredKeys,
            IF yi = 0 THEN "Unknown" ELSE txt[yi].year,
            IF si = 0 THEN "Unknown" ELSE txt[si].sem,
            IF ni = 0 THEN "Unknown" ELSE first10[ni].s,
            IF ci = 0 THEN "Unknown" ELSE txt[ci].code,
            IF ii = 0 THEN "Unknown" ELSE Strip(txt[ii].instr),
            IF ei = 0 \/ Len(txt[ei].email) < 2 THEN "Unknown"
            ELSE Upper(txt[ei].email[1]),
            "Unknown",
            <<>>)

(***************************************************************************)
(* call_llm_for_metadata                                                   *)
(***************************************************************************)
\* the reading material of the AI records of the model
AIMaterial ==
    Mat("Psychology, 5th edition, by Pearson", ABSENT, ABSENT, "books", "required",
        "Unknown")

\* JSON values the LLM may answer with
AIFull ==
    Dict(RequiredKeys, "2024", "Fall", "Introduction to Psychology", "PSY 101",
         "Jane Doe", "University of Florida", "Cognition", <<AIMaterial>>)
AINullInstructor ==
    Dict(RequiredKeys, "2024", "Fall", "Introduction to Psychology", "PSY 101",
         NONE, "University of Florida", "Cognition", <<>>)
AIPartial ==
    Dict({"year", "class_name"}, "2024", ABSENT, "Introduction to Psychology",
         ABSENT, ABSENT, ABSENT, ABSENT, <<>>)
AINoReadings ==
    Dict(RequiredKeys \ {"reading_materials"}, "2024", "Fall",
         "Introduction to Psychology", "PSY 101", "Jane Doe",
         "University of Florida", "Cognition", <<>>)
AIEmptyObject ==
    Dict({}, ABSENT, ABSENT, ABSENT, ABSENT, ABSENT, ABSENT, ABSENT, <<>>)
JsonArray == [Dict({}, ABSENT, ABSENT, ABSENT, ABSENT, ABSENT, ABSENT, ABSENT, <<>>)
                EXCEPT !.kind = "list"]
NotJson == [JsonArray EXCEPT !.kind = "garbage"]
NoData == [JsonArray EXCEPT !.kind = "none"]

Bodies == {AIFull, AINullInstructor, AIPartial, AINoReadings, AIEmptyObject,
           JsonArray, NotJson}

\* message.content: an optional opening fence, a body, an optional closing fence;
\* "<fence>" is three backticks, "<fence json>" three backticks and the word json
Content(prefix, body, suffix) == [prefix |-> prefix, body |-> body, suffix |-> suffix]
Contents ==
    {Content("", b, "") : b \in Bodies}
    \cup {Content("<fence json>", b, "<fence>") : b \in {AIFull, AIPartial}}
    \cup {Content("<fence json>", AIFull, ""), Content("<fence>", AIFull, "<fence>")}

\* what the LLM capability does on one call
LLMRaises == [kind |-> "raises", content |-> Content("", NoData, "")]
LLMNotCalled == [LLMRaises EXCEPT !.kind = "no_client"]
LLMNone == [LLMRaises EXCEPT !.kind = "none"]
LLMAnswers(c) == [kind |-> "content", content |-> c]
LLMBehaviours == {LLMRaises} \cup {LLMAnswers(c) : c \in Contents}

\* line 127: the substitution removes an opening "<fence json>" and a closing
\* "<fence>"; an opening fence without the word json stays in place
FenceLeft(c) == c.prefix = "<fence>"

\* lines 124-129: json.loads raises, or the parsed value is returned
JsonLoadsRaises(c) == FenceLeft(c) \/ c.body.kind = "garbage"

\* lines 95-129: what call_llm_for_metadata does: "raises" or "returns" data
call_llm_for_metadata(has_client, behaviour) ==
    IF ~has_client THEN [outcome |-> "raises", data |-> NoData]
    ELSE IF behaviour.kind = "raises" THEN [outcome |-> "raises", data |-> NoData]
    ELSE IF JsonLoadsRaises(behaviour.content) THEN [outcome |-> "raises", data |-> NoData]
    ELSE [outcome |-> "returns", data |-> behaviour.content.body]

\* json.dumps(..., ensure_ascii=False) of a list
JsonDumps(list) == <<"json", list>>

\* lines 238-240
AttachFilename(d, name) ==
    [d EXCEPT !.keys = (d.keys \cup {"filename", "reading_materials_json"})
                       \ {"reading_materials"},
              !.filename = name,
              !.reading_materials_json =
                  JsonDumps(IF "reading_materials" \in d.keys THEN d.reading_materials
                            ELSE <<>>),
              !.reading_materials = <<>>]

EIdle ==
    /\ client = FALSE /\ pdf_files = <<>> /\ di = 0 /\ epc = "idle"
    /\ text = <<>> /\ combined_text = <<>> /\ data = NoData
    /\ rows = <<>> /\ row_doc = <<>> /\ ai_calls = <<>> /\ heur_calls = <<>>
    /\ ai_result = <<>> /\ heur_arg = <<>> /\ ai_arg = <<>>

\* the convenience functions are not called, heuristic_parse and
\* _check_availability are not applied on their own
BIdle ==
    /\ bentry = "none" /\ binput = <<>> /\ bkey = FALSE /\ bsession = "none"
    /\ bopened = 0 /\ btasks = <<>> /\ bqueries = <<>> /\ bdone = <<>>
    /\ bret = [kind |-> "none", value |-> <<>>] /\ bpc = "off"
HIdle == htext = <<>> /\ hout = <<>> /\ hpc = "off"
AIdle == adoc = "none" /\ aout = "none" /\ apc = "off"
DIdle ==
    /\ dpdfs = <<>> /\ ddisk = {} /\ downloaded_files = {} /\ dworkers = <<>>
    /\ dreleased = {}
XIdle == BIdle /\ HIdle /\ AIdle /\ DIdle

(***************************************************************************)
(* The matcher as a state machine                                          *)
(***************************************************************************)
Init ==
    /\ session = "none"
    /\ api_key \in BOOLEAN
    /\ metadata \in Metadatas
    /\ pc = "idle"
    /\ idx = 0
    /\ results = <<>>
    /\ library_matches = <<>>
    /\ lm_item = <<>>
    /\ queries = <<>>
    /\ resp_log = <<>>
    /\ report = NoReport
    /\ raised = "none"
    /\ EIdle
    /\ XIdle

\* __aenter__ (lines 36-38)
AEnter ==
    /\ pc = "idle" /\ session = "none"
    /\ session' = "open"
    /\ UNCHANGED <<api_key, metadata, pc, idx, results, library_matches, lm_item,
                   queries, resp_log, report, raised, evars, xvars>>

\* __aexit__ (lines 40-42), once no call is running
AExit ==
    /\ pc \in {"idle", "done", "raised"} /\ session = "open"
    /\ session' = "closed"
    /\ UNCHANGED <<api_key, metadata, pc, idx, results, library_matches, lm_item,
                   queries, resp_log, report, raised, evars, xvars>>

\* lines 54-55: the guard in front of the try block
CallNoSession ==
    /\ pc = "idle" /\ session = "none"
    /\ raised' = "RuntimeError"
    /\ pc' = "raised"
    /\ UNCHANGED <<session, api_key, metadata, idx, results, library_matches,
                   lm_item, queries, resp_log, report, evars, xvars>>

\* line 59 on an argument that is no dict: AttributeError, caught at line 162
CallBadMetadata ==
    /\ pc = "idle" /\ session # "none"
    /\ metadata.kind = "notdict"
    /\ report' = ExceptReport(metadata, "AttributeError")
    /\ pc' = "done"
    /\ UNCHANGED <<session, api_key, metadata, idx, results, library_matches,
                   lm_item, queries, resp_log, raised, evars, xvars>>

\* lines 59-66
CallNoMaterials ==
    /\ pc = "idle" /\ session # "none"
    /\ metadata.kind = "dict"
    /\ metadata.reading_materials = <<>>
    /\ report' = NoMaterialsReport(metadata)
    /\ pc' = "done"
    /\ UNCHANGED <<session, api_key, metadata, idx, results, library_matches,
                   lm_item, queries, resp_log, raised, evars, xvars>>

\* lines 59-72: the loop is entered
CallBegin ==
    /\ pc = "idle" /\ session # "none"
    /\ metadata.kind = "dict"
    /\ metadata.reading_materials # <<>>
    /\ pc' = "loop"
    /\ idx' = 1
    /\ UNCHANGED <<session, api_key, metadata, results, library_matches, lm_item,
                   queries, resp_log, report, raised, evars, xvars>>

AtItem == pc = "loop" /\ idx <= Len(metadata.reading_materials)
Cur == metadata.reading_materials[idx]

\* (faulty variant of ItemFails: the exception is not caught)
ItemFailsEscapes ==
    /\ AtItem
    /\ ItemRaises(Cur)
    /\ raised' = "AttributeError"
    /\ pc' = "raised"
    /\ UNCHANGED <<session, api_key, metadata, idx, results, library_matches,
                   lm_item, queries, resp_log, report, evars, xvars>>

\* lines 76-77 raise on the item; the handler at lines 162-168 returns
ItemFails ==
    /\ AtItem
    /\ ItemRaises(Cur)
    /\ report' = ExceptReport(metadata, "AttributeError")
    /\ pc' = "done"
    /\ UNCHANGED <<session, api_key, metadata, idx, results, library_matches,
                   lm_item, queries, resp_log, raised, evars, xvars>>

\* lines 81-82, 106-107 and a falsy title at line 110: nothing is recorded
ItemSkip ==
    /\ AtItem
    /\ ~ItemRaises(Cur)
    /\ \/ Cur.kind = "other"
       \/ IsEquipment(Cur)
       \/ ~HasResolvedUrl(Cur) /\ ~Truthy(TitleOf(Cur))
    /\ idx' = idx + 1
    /\ UNCHANGED <<session, api_key, metadata, pc, results, library_matches,
                   lm_item, queries, resp_log, report, raised, evars, xvars>>

\* lines 85-101
ItemUrl ==
    /\ AtItem
    /\ ~ItemRaises(Cur)
    /\ ~IsEquipment(Cur)
    /\ HasResolvedUrl(Cur)
    /\ library_matches' = Append(library_matches, UrlEntry(Cur))
    /\ lm_item' = Append(lm_item, idx)
    /\ idx' = idx + 1
    /\ UNCHANGED <<session, api_key, metadata, pc, results, queries, resp_log, report,
                   raised, evars, xvars>>

\* lines 110-111, 145-151
ItemNoKey ==
    /\ AtItem
    /\ ~ItemRaises(Cur)
    /\ ReachesSearch(Cur)
    /\ ~api_key
    /\ library_matches' = Append(library_matches, NotFoundEntry(TitleOf(Cur)))
    /\ lm_item' = Append(lm_item, idx)
    /\ idx' = idx + 1
    /\ UNCHANGED <<session, api_key, metadata, pc, results, queries, resp_log, report,
                   raised, evars, xvars>>

\* lines 112, 183-219: the query is built and session.get is awaited
ItemQuery ==
    /\ AtItem
    /\ ~ItemRaises(Cur)
    /\ ReachesSearch(Cur)
    /\ api_key
    /\ queries' = Append(queries, [item |-> idx, session |-> session,
                                   q |-> BuildQuery(TitleOf(Cur), AuthorOf(Cur))])
    /\ pc' = "await"
    /\ UNCHANGED <<session, api_key, metadata, idx, results, library_matches,
                   lm_item, resp_log, report, raised, evars, xvars>>

\* (faulty variant of Receive: a failed request is not caught inside
\* _search_single_item and ends the call in the handler at line 162)
ReceiveFailureEscapes ==
    /\ pc = "await"
    /\ \E resp \in Responses :
         /\ session = "closed" => resp = RespException
         /\ resp_log' = Append(resp_log, resp)
         /\ LET sr == SearchOutcome(resp, TitleOf(Cur), AuthorOf(Cur))
            IN IF resp.kind = "exception" \/ resp.status # 200
               THEN /\ report' = ExceptReport(metadata, "ClientError")
                    /\ pc' = "done"
                    /\ UNCHANGED <<results, library_matches, lm_item, idx>>
               ELSE /\ results' = Append(results, sr)
                    /\ library_matches' = Append(library_matches, SearchEntry(TitleOf(Cur), sr))
                    /\ lm_item' = Append(lm_item, idx)
                    /\ idx' = idx + 1
                    /\ pc' = "loop"
                    /\ UNCHANGED report
    /\ UNCHANGED <<session, api_key, metadata, queries, raised, evars, xvars>>

\* lines 219-236 and 113-144: the outcome of session.get arrives
\* (a closed session makes session.get raise)
Receive ==
    /\ pc = "await"
    /\ \E resp \in Responses :
         /\ session = "closed" => resp = RespException
         /\ resp_log' = Append(resp_log, resp)
         /\ LET sr == SearchOutcome(resp, TitleOf(Cur), AuthorOf(Cur))
            IN /\ results' = Append(results, sr)
               /\ library_matches' = Append(library_matches, SearchEntry(TitleOf(Cur), sr))
    /\ lm_item' = Append(lm_item, idx)
    /\ idx' = idx + 1
    /\ pc' = "loop"
    /\ UNCHANGED <<session, api_key, metadata, queries, report, raised, evars, xvars>>

\* lines 153-160
Return ==
    /\ pc = "loop" /\ idx > Len(metadata.reading_materials)
    /\ report' = FullReport(metadata, results, library_matches)
    /\ pc' = "done"
    /\ UNCHANGED <<session, api_key, metadata, idx, results, library_matches,
                   lm_item, queries, resp_log, raised, evars, xvars>>

Next ==
    \/ AEnter \/ AExit
    \/ CallNoSession \/ CallBadMetadata \/ CallNoMaterials \/ CallBegin
    \/ ItemFails \/ ItemSkip \/ ItemUrl \/ ItemNoKey \/ ItemQuery \/ Receive
    \/ Return

Spec == Init /\ [][Next]_vars

(***************************************************************************)
(* Properties of the matcher                                               *)
(***************************************************************************)
RM == metadata.reading_materials

\* the loop has gone past item i
Processed(i) == pc \in {"loop", "await", "done"} /\ idx > i

\* the library_matches entries that came from item i
EntriesOf(i) == {k \in 1..Len(lm_item) : lm_item[k] = i}
QueriesOf(i) == {k \in 1..Len(queries) : queries[k].item = i}

\* the call returned the full (non-error) report
Completed == pc = "done" /\ "error" \notin report.keys

\* the item as the reader of the data model sees it: its media type is the
\* value under "type" when that key is present, under "media_type" otherwise
EquipmentSpellings == {"equipment", "Equipment", "EQUIPMENT"}
MediaTypeField(m) == IF m.type # ABSENT THEN m.type ELSE m.media_type
SaysEquipment(m) ==
    m.kind = "dict"
    /\ (m.requirement \in EquipmentSpellings \/ MediaTypeField(m) \in EquipmentSpellings)
UnknownSpellings == {"unknown", "Unknown", "UNKNOWN", "none", "None", "NONE", ""}
CarriesUrl(m) ==
    m.kind = "dict" /\ m.url \notin ({ABSENT, NONE} \cup UnknownSpellings)
Malformed(m) ==
    m.kind = "dict" /\ (m.requirement = NONE \/ MediaTypeField(m) = NONE)

\* C2 (as stated): the availability-matching entry point never lets an
\* exception escape, whatever the metadata and whatever the state of the
\* client, a client without an open session included.
C2_NeverRaises == raised = "none" /\ pc # "raised"

\* C2 (amended): search_by_metadata lets an exception escape only when it is
\* called on a client that has no session, and then it is RuntimeError and
\* nothing is returned; called on a client with a session (as
\* check_metadata_availability does, inside `async with`), it never raises and
\* every failure is inside the returned report.
C2_RaisesOnlyWithoutSession ==
    /\ pc = "raised" => raised = "RuntimeError" /\ session = "none" /\ report = NoReport
    /\ pc # "raised" => raised = "none"
    /\ session # "none" => raised = "none"
    /\ pc = "done" => {"found", "library_matches", "metadata"} \subseteq report.keys

C2_Witness ==
    /\ pc = "done" /\ session = "open" /\ raised = "none"
    /\ "error" \in report.keys /\ report.error = "AttributeError"
    /\ metadata.kind = "dict"

C6_PreResolvedUrl ==
    \A i \in 1..Len(RM) :
        (Processed(i) /\ ~SaysEquipment(RM[i]) /\ CarriesUrl(RM[i])) =>
            /\ Cardinality(EntriesOf(i)) = 1
            /\ QueriesOf(i) = {}
            /\ \A k \in EntriesOf(i) :
                 /\ library_matches[k].matchScore = "1.0"
                 /\ Len(library_matches[k].matches) = 1
                 /\ library_matches[k].matches[1].availability = "available"
                 /\ library_matches[k].matches[1].format = "Online Resource"
                 /\ library_matches[k].matches[1].location = "Online"
                 /\ library_matches[k].matches[1].link = RM[i].url
                 /\ Completed => report.library_matches[k] = library_matches[k]

C6_Witness ==
    /\ Completed /\ api_key
    /\ \E i \in 1..Len(RM) : ~SaysEquipment(RM[i]) /\ CarriesUrl(RM[i])
    /\ \E k \in 1..Len(report.library_matches) :
         report.library_matches[k].matchScore = "1.0"
    /\ queries = <<>>

\* the item gets to the search rule: not skipped, no usable url, a title
TitledForSearch(m) ==
    /\ m.kind \in {"dict", "str"}
    /\ ~SaysEquipment(m) /\ ~CarriesUrl(m) /\ ~Malformed(m)
    /\ m.title \notin {ABSENT, NONE, ""}

\* the response is a failure or has no documents
NothingFound(resp) ==
    \/ resp.kind = "exception"
    \/ resp.status # 200
    \/ resp.json = "dict" /\ resp.docs = <<>>

\* C7: a titled item at the search rule whose query errors, returns a non-200
\* status or returns no documents, or for which no API key is configured, has
\* exactly one entry, of score 0.0 with no matches; without an API key no
\* query is issued.
C7_NotFoundEntry ==
    /\ \A i \in 1..Len(RM) :
         (Processed(i) /\ TitledForSearch(RM[i])) =>
            /\ Cardinality(EntriesOf(i)) = 1
            /\ ~api_key =>
                 /\ QueriesOf(i) = {}
                 /\ \A k \in EntriesOf(i) :
                      library_matches[k] = [originalQuery |-> RM[i].title,
                                            matchScore |-> "0.0", matches |-> <<>>]
    /\ \A q \in 1..Len(resp_log) :
         NothingFound(resp_log[q]) =>
            \A k \in EntriesOf(queries[q].item) :
                /\ library_matches[k].matchScore = "0.0"
                /\ library_matches[k].matches = <<>>
                /\ library_matches[k].originalQuery = RM[queries[q].item].title
                /\ Completed => report.library_matches[k] = library_matches[k]
    /\ ~api_key => queries = <<>>

C7_Witness ==
    /\ Completed /\ api_key
    /\ \E q \in 1..Len(resp_log) :
         /\ resp_log[q] = RespDocs(<<>>)
         /\ \E k \in EntriesOf(queries[q].item) :
              report.library_matches[k].matchScore = "0.0"

\* C8 (as stated): found_materials is the number of library_matches entries
\* that have at least one match.
C8_FoundMaterialsCountsMatches ==
    Completed =>
        report.found_materials =
            Cardinality({k \in 1..Len(report.library_matches) :
                            report.library_matches[k].matches # <<>>})

C10_SystemicFailureReport ==
    (pc = "done" /\ (metadata.kind = "notdict" \/ \E i \in 1..Len(RM) : Malformed(RM[i]))) =>
        /\ report.keys = {"found", "error", "metadata", "library_matches"}
        /\ report.found = FALSE
        /\ report.error # ""
        /\ report.metadata = metadata
        /\ report.library_matches = <<>>
        /\ raised = "none"

C10_Witness ==
    /\ pc = "done" /\ Len(RM) = 2 /\ Malformed(RM[2])
    /\ library_matches # <<>>
    /\ report.library_matches = <<>> /\ "error" \in report.keys

\* the request failed: it raised, came back with a status other than 200, or
\* its body could not be parsed (no JSON object, or a broken document among
\* the documents that are read)
ParseFails(resp) ==
    /\ resp.kind = "response" /\ resp.status = 200
    /\ \/ resp.json # "dict"
       \/ \E j \in 1..Len(resp.docs) : j <= 3 /\ resp.docs[j].pnx = NONE
QueryFails(resp) ==
    resp.kind = "exception" \/ resp.status # 200 \/ ParseFails(resp)

\* the entry of item i as its own title, url and response alone determine it
OwnEntry(i) ==
    IF QueriesOf(i) = {}
    THEN IF CarriesUrl(RM[i]) THEN UrlEntry(RM[i]) ELSE NotFoundEntry(RM[i].title)
    ELSE LET q == CHOOSE k \in QueriesOf(i) : TRUE
         IN SearchEntry(RM[i].title,
                        SearchOutcome(resp_log[q], RM[i].title,
                                      IF RM[i].creator = ABSENT THEN "" ELSE RM[i].creator))

\* C11: a failed query (exception, non-200 status, parse error) is confined to
\* its item: the item gets one entry of score 0.0 without matches, the loop
\* goes on to the items after it, the entry of every item is the one its own
\* item and its own response determine, whatever the queries of the other
\* items did, and a call whose only failures are failed queries returns the
\* full report, which has no error string.
C11_QueryFailureConfined ==
    /\ \A q \in 1..Len(resp_log) :
         QueryFails(resp_log[q]) =>
            /\ Cardinality(EntriesOf(queries[q].item)) = 1
            /\ \A k \in EntriesOf(queries[q].item) :
                 /\ library_matches[k].matchScore = "0.0"
                 /\ library_matches[k].matches = <<>>
            /\ pc \in {"loop", "await", "done"} /\ idx > queries[q].item
    /\ \A k \in 1..Len(lm_item) : library_matches[k] = OwnEntry(lm_item[k])
    /\ \A i \in 1..Len(RM) : Cardinality(QueriesOf(i)) <= 1
    /\ (pc = "done" /\ metadata.kind = "dict" /\ RM # <<>>
        /\ \A i \in 1..Len(RM) : ~Malformed(RM[i])) =>
            /\ "error" \notin report.keys
            /\ idx = Len(RM) + 1
            /\ report.library_matches = library_matches
            /\ \A i \in 1..Len(RM) :
                 (TitledForSearch(RM[i]) \/ (~SaysEquipment(RM[i]) /\ CarriesUrl(RM[i])))
                    => Cardinality(EntriesOf(i)) = 1

\* the first of two queries fails, the second item is matched all the same
C11_Witness ==
    /\ Completed /\ Len(RM) = 2 /\ Len(resp_log) = 2
    /\ QueryFails(resp_log[1]) /\ ParseFails(resp_log[1])
    /\ report.library_matches[1].matchScore = "0.0"
    /\ report.library_matches[2].matchScore = "0.8"

\* the response is a success with documents: status 200, a JSON object with
\* a non-empty "docs" list, and no parse failure
SuccessWithDocs(resp) ==
    /\ resp.kind = "response" /\ resp.status = 200 /\ resp.json = "dict"
    /\ resp.docs # <<>>
    /\ ~ParseFails(resp)

\* C16: for a successful response with d >= 1 documents the entry of the item
\* has score 0.8 and exactly min(3, d) matches, the j-th match being built
\* from the j-th document of the response; no document after the third is
\* reported (nor read: a broken fourth document changes nothing).
C16_TopThreeInRankOrder ==
    \A q \in 1..Len(resp_log) :
        SuccessWithDocs(resp_log[q]) =>
            LET docs == resp_log[q].docs
                n == IF Len(docs) < 3 THEN Len(docs) ELSE 3
            IN /\ Cardinality(EntriesOf(queries[q].item)) = 1
               /\ \A k \in EntriesOf(queries[q].item) :
                    /\ library_matches[k].matchScore = "0.8"
                    /\ Len(library_matches[k].matches) = n
                    /\ \A j \in 1..n :
                         /\ library_matches[k].matches[j] = LibMatch(PrimoResult(docs[j]))
                         /\ library_matches[k].matches[j].title = FirstOrUnknown(docs[j].title)
                    /\ Completed => report.library_matches[k] = library_matches[k]

\* four documents came back, the fourth broken; three are reported, in order
C16_Witness ==
    /\ Completed
    /\ \E q \in 1..Len(resp_log) :
         /\ resp_log[q] = RespDocs(<<DocPhysical, DocOnline, DocBare, DocBad>>)
         /\ \E k \in EntriesOf(queries[q].item) :
              /\ Len(report.library_matches[k].matches) = 3
              /\ report.library_matches[k].matches[1].title = "Mind and Behaviour"
              /\ report.library_matches[k].matches[2].title = "Psychology"
              /\ report.library_matches[k].matches[3].title = "Unknown"

(***************************************************************************)
(* process_pdfs_batch as a state machine                                   *)
(***************************************************************************)
MIdle ==
    /\ session = "none" /\ api_key = FALSE /\ metadata = MetaNoKey /\ pc = "off"
    /\ idx = 0 /\ results = <<>> /\ library_matches = <<>> /\ lm_item = <<>>
    /\ queries = <<>> /\ resp_log = <<>> /\ report = NoReport /\ raised = "none"

NoAttempt == [behaviour |-> LLMNone, outcome |-> "none"]

EInit ==
    /\ client \in BOOLEAN
    /\ pdf_files \in SeqsUpTo(Pdfs, MaxFiles) \ {<<>>}
    /\ di = 1
    /\ epc = "start"
    /\ text = <<>>
    /\ combined_text = <<>>
    /\ data = NoData
    /\ rows = <<>>
    /\ row_doc = <<>>
    /\ ai_calls = [i \in 1..Len(pdf_files) |-> 0]
    /\ heur_calls = [i \in 1..Len(pdf_files) |-> 0]
    /\ ai_result = [i \in 1..Len(pdf_files) |-> NoAttempt]
    /\ heur_arg = [i \in 1..Len(pdf_files) |-> <<>>]
    /\ ai_arg = [i \in 1..Len(pdf_files) |-> <<>>]
    /\ MIdle
    /\ XIdle

\* lines 222-227
Normalize ==
    /\ epc = "start" /\ di <= Len(pdf_files)
    /\ text' = extract_text_from_pdf(pdf_files[di].pages)
    /\ combined_text' = CombinedText(text', extract_tables_from_pdf(pdf_files[di].pages))
    /\ data' = NoData
    /\ epc' = "ai"
    /\ UNCHANGED <<client, pdf_files, di, rows, row_doc, ai_calls, heur_calls,
                   ai_result, heur_arg, ai_arg, mvars, xvars>>

\* what the LLM capability does when the client exists; without a client it
\* is never reached (line 95)
BehavioursNow == IF client THEN LLMBehaviours ELSE {LLMNotCalled}

\* (faulty variant of ExtractAIReturns: the AI record is discarded)
ExtractAIReturnsDiscarded ==
    /\ epc = "ai"
    /\ \E b \in BehavioursNow :
         LET r == call_llm_for_metadata(client, b)
         IN /\ r.outcome = "returns"
            /\ data' = r.data
            /\ ai_result' = [ai_result EXCEPT ![di] = [behaviour |-> b, outcome |-> r.outcome]]
    /\ ai_calls' = [ai_calls EXCEPT ![di] = @ + 1]
    /\ ai_arg' = [ai_arg EXCEPT ![di] = combined_text]
    /\ epc' = "fallback"
    /\ UNCHANGED <<client, pdf_files, di, text, combined_text, rows, row_doc,
                   heur_calls, heur_arg, mvars, xvars>>

\* lines 230-232: call_llm_for_metadata(combined_text) returns
ExtractAIReturns ==
    /\ epc = "ai"
    /\ \E b \in BehavioursNow :
         LET r == call_llm_for_metadata(client, b)
         IN /\ r.outcome = "returns"
            /\ data' = r.data
            /\ ai_result' = [ai_result EXCEPT ![di] = [behaviour |-> b, outcome |-> r.outcome]]
    /\ ai_calls' = [ai_calls EXCEPT ![di] = @ + 1]
    /\ ai_arg' = [ai_arg EXCEPT ![di] = combined_text]
    /\ epc' = "attach"
    /\ UNCHANGED <<client, pdf_files, di, text, combined_text, rows, row_doc,
                   heur_calls, heur_arg, mvars, xvars>>

\* lines 230-233: call_llm_for_metadata(combined_text) raises
ExtractAIRaises ==
    /\ epc = "ai"
    /\ \E b \in BehavioursNow :
         LET r == call_llm_for_metadata(client, b)
         IN /\ r.outcome = "raises"
            /\ ai_result' = [ai_result EXCEPT ![di] = [behaviour |-> b, outcome |-> r.outcome]]
    /\ ai_calls' = [ai_calls EXCEPT ![di] = @ + 1]
    /\ ai_arg' = [ai_arg EXCEPT ![di] = combined_text]
    /\ epc' = "fallback"
    /\ UNCHANGED <<client, pdf_files, di, text, combined_text, data, rows, row_doc,
                   heur_calls, heur_arg, mvars, xvars>>

\* lines 233-235: data = heuristic_parse(text)
Fallback ==
    /\ epc = "fallback"
    /\ data' = heuristic_parse(text)
    /\ heur_calls' = [heur_calls EXCEPT ![di] = @ + 1]
    /\ heur_arg' = [heur_arg EXCEPT ![di] = text]
    /\ epc' = "attach"
    /\ UNCHANGED <<client, pdf_files, di, text, combined_text, rows, row_doc,
                   ai_calls, ai_result, ai_arg, mvars, xvars>>

\* lines 238-242
Attach ==
    /\ epc = "attach" /\ data.kind = "dict"
    /\ rows' = Append(rows, AttachFilename(data, pdf_files[di].name))
    /\ row_doc' = Append(row_doc, di)
    /\ di' = di + 1
    /\ epc' = "start"
    /\ UNCHANGED <<client, pdf_files, text, combined_text, data, ai_calls,
                   heur_calls, ai_result, heur_arg, ai_arg, mvars, xvars>>

\* line 238 on a value that is no dict raises TypeError; lines 244-246 go on
\* to the next document
AttachFails ==
    /\ epc = "attach" /\ data.kind # "dict"
    /\ di' = di + 1
    /\ epc' = "start"
    /\ UNCHANGED <<client, pdf_files, text, combined_text, data, rows, row_doc,
                   ai_calls, heur_calls, ai_result, heur_arg, ai_arg, mvars, xvars>>

\* lines 248-255: the loop is over
BatchDone ==
    /\ epc = "start" /\ di > Len(pdf_files)
    /\ epc' = "done"
    /\ UNCHANGED <<client, pdf_files, di, text, combined_text, data, rows, row_doc,
                   ai_calls, heur_calls, ai_result, heur_arg, ai_arg, mvars, xvars>>

ENext ==
    \/ Normalize \/ ExtractAIReturns \/ ExtractAIRaises \/ Fallback
    \/ Attach \/ AttachFails \/ BatchDone

SpecExtract == EInit /\ [][ENext]_vars

(***************************************************************************)
(* Properties of the extraction pipeline                                   *)
(***************************************************************************)
\* the loop body is over for document d
Finished(d) == d < di

RowsOf(d) == {k \in 1..Len(rows) : row_doc[k] = d}

ScalarKeys == RequiredKeys \ {"reading_materials"}

\* C1 (as stated): whatever the LLM capability does, every document yields
\* exactly one metadata record in which year, semester, class_name,
\* class_number, instructor, university, main_topic, the reading materials and
\* filename are all present and non-null.
C1_OneCompleteRecordPerDocument ==
    \A d \in 1..Len(pdf_files) :
        Finished(d) =>
            /\ Cardinality(RowsOf(d)) = 1
            /\ \A k \in RowsOf(d) :
                 /\ ScalarKeys \cup {"filename"} \subseteq rows[k].keys
                 /\ \A f \in ScalarKeys \cup {"filename"} : rows[k][f] \notin {NONE, ABSENT}
                 /\ {"reading_materials", "reading_materials_json"} \cap rows[k].keys # {}

\* C3: for every document AI extraction is attempted exactly once and before
\* any heuristic call; the heuristic extractor is called if and only if the
\* AI attempt raised; and when the AI attempt returned, the record of the
\* document is the AI record with the filename attached.
C3_AIFirstThenFallback ==
    \A d \in 1..Len(pdf_files) :
        /\ ai_calls[d] <= 1 /\ heur_calls[d] <= 1
        /\ heur_calls[d] = 1 => ai_calls[d] = 1 /\ ai_result[d].outcome = "raises"
        /\ Finished(d) =>
             /\ ai_calls[d] = 1
             /\ heur_calls[d] = 1 <=> ai_result[d].outcome = "raises"
             /\ ai_result[d].outcome = "returns" =>
                  \A k \in RowsOf(d) :
                      LET ai == ai_result[d].behaviour.content.body
                      IN /\ rows[k].filename = pdf_files[d].name
                         /\ rows[k].keys \cap RequiredKeys = ai.keys \ {"reading_materials"}
                         /\ \A f \in ai.keys \cap ScalarKeys : rows[k][f] = ai[f]
                         /\ rows[k].reading_materials_json =
                               <<"json", IF "reading_materials" \in ai.keys
                                         THEN ai.reading_materials ELSE <<>> >>

C3_Witness ==
    /\ epc = "done" /\ Len(pdf_files) = 2
    /\ pdf_files[1] = PdfBlank
    /\ ai_result[1].outcome = "returns" /\ heur_calls[1] = 0
    /\ Len(rows) = 2 /\ rows[1].instructor = "Jane Doe"
    /\ ai_result[2].outcome = "raises" /\ heur_calls[2] = 1

\* C4 (as stated): when the LLM's answer, after fence stripping, parses as a
\* JSON object that lacks one of the required keys, AI extraction fails, so that
\* the record of the document is the heuristic one.
C4_MissingKeysFail ==
    \A d \in 1..Len(pdf_files) :
        LET b == ai_result[d].behaviour
        IN (/\ b.kind = "content"
            /\ b.content.prefix # "<fence>"
            /\ b.content.body.kind = "dict"
            /\ ~(RequiredKeys \subseteq b.content.body.keys)) =>
               /\ ai_result[d].outcome = "raises"
               /\ Finished(d) => heur_calls[d] = 1

(***************************************************************************)
(* The convenience functions: one client, one session, the coroutines of   *)
(* the records run concurrently under asyncio.gather                       *)
(***************************************************************************)
MaxBatch == 2      \* longest metadata_list

MatSearched ==
    Mat("Psychology, 5th edition, by Pearson", "Passer", ABSENT, "books", "Required",
        "Unknown")
MatUrl ==
    Mat("Course Reader", "Passer", ABSENT, "websites", "required",
        "https://example.com/book")
MatMalformed == Mat("Course Reader", ABSENT, ABSENT, "books", NONE, ABSENT)
MatStr == StrMat("Introduction to Psychology by Myers")
MatEmpty == Mat("", ABSENT, ABSENT, "books", ABSENT, "None")

\* the records of a metadata_list
BatchMetas ==
    { MetaNotDict, MetaWith(<<>>), MetaWith(<<MatSearched>>),
      MetaWith(<<MatSearched, MatMalformed>>), MetaWith(<<MatUrl, MatStr>>) }

\* (title, author) arguments of check_primo_availability
SingleItems == {MatSearched, MatStr, MatEmpty}

BatchResponses == {RespException, RespDocs(<<>>), RespDocs(<<DocOnline>>)}

EntryPoints ==
    {"check_primo_availability", "check_metadata_availability", "check_multiple_metadata"}

\* the arguments an entry point is called with
InputsOf(entry) ==
    IF entry = "check_primo_availability"
    THEN {[kind |-> "item", items |-> <<m>>] : m \in SingleItems}
    ELSE IF entry = "check_metadata_availability"
    THEN {[kind |-> "record", items |-> <<md>>] : md \in BatchMetas}
    ELSE {[kind |-> "list", items |-> l] : l \in SeqsUpTo(BatchMetas, MaxBatch)}
         \cup {[kind |-> "notlist", items |-> <<>>]}

\* the coroutine object of one record (or one title): position and locals
Task(op, arg) ==
    [op |-> op, md |-> arg, pc |-> "new", idx |-> 0, results |-> <<>>,
     library_matches |-> <<>>, resps |-> <<>>, report |-> NoReport]

\* lines 72-160 and 162-168: search_by_metadata from item t.idx up to the
\* next session.get, or to its return
RECURSIVE RunLoop(_, _)
RunLoop(t, key) ==
    IF t.idx > Len(t.md.reading_materials)
    THEN [t EXCEPT !.pc = "done",
                   !.report = FullReport(t.md, t.results, t.library_matches)]
    ELSE LET m == t.md.reading_materials[t.idx]
         IN IF ItemRaises(m)
            THEN [t EXCEPT !.pc = "done", !.report = ExceptReport(t.md, "AttributeError")]
            ELSE IF \/ m.kind = "other"
                    \/ IsEquipment(m)
                    \/ ~HasResolvedUrl(m) /\ ~Truthy(TitleOf(m))
            THEN RunLoop([t EXCEPT !.idx = @ + 1], key)
            ELSE IF HasResolvedUrl(m)
            THEN RunLoop([t EXCEPT !.idx = @ + 1,
                                   !.library_matches = Append(@, UrlEntry(m))], key)
            ELSE IF ~key
            THEN RunLoop([t EXCEPT !.idx = @ + 1,
                                   !.library_matches = Append(@, NotFoundEntry(TitleOf(m)))],
                         key)
            ELSE [t EXCEPT !.pc = "await"]

\* the coroutine runs from its start to its first session.get or its return:
\* search_by_metadata lines 54-72, _search_single_item lines 181-219
StartTask(t, sess, key) ==
    IF t.op = "search_by_metadata"
    THEN IF sess = "none" THEN [t EXCEPT !.pc = "raised"]
         ELSE IF t.md.kind = "notdict"
         THEN [t EXCEPT !.pc = "done", !.report = ExceptReport(t.md, "AttributeError")]
         ELSE IF t.md.reading_materials = <<>>
         THEN [t EXCEPT !.pc = "done", !.report = NoMaterialsReport(t.md)]
         ELSE RunLoop([t EXCEPT !.pc = "loop", !.idx = 1], key)
    ELSE IF ~Truthy(TitleOf(t.md)) /\ ~Truthy(AuthorOf(t.md))
         THEN [t EXCEPT !.pc = "done",
                        !.report = [found |-> FALSE, title |-> TitleOf(t.md),
                                    results |-> <<>>, note |-> "No search terms provided"]]
         ELSE [t EXCEPT !.pc = "await"]

\* the outcome of session.get arrives and the coroutine runs on to its next
\* session.get or its return
ReceiveTask(t, resp, key) ==
    IF t.op = "search_by_metadata"
    THEN LET m == t.md.reading_materials[t.idx]
             sr == SearchOutcome(resp, TitleOf(m), AuthorOf(m))
         IN RunLoop([t EXCEPT !.pc = "loop", !.idx = @ + 1,
                              !.resps = Append(@, resp),
                              !.results = Append(@, sr),
                              !.library_matches = Append(@, SearchEntry(TitleOf(m), sr))],
                    key)
    ELSE [t EXCEPT !.pc = "done", !.resps = Append(@, resp),
                   !.report = SearchOutcome(resp, TitleOf(t.md), AuthorOf(t.md))]

OpOf(entry) ==
    IF entry = "check_primo_availability" THEN "_search_single_item"
    ELSE "search_by_metadata"

BInit ==
    /\ bentry \in EntryPoints
    /\ binput \in InputsOf(bentry)
    /\ bkey \in BOOLEAN
    /\ bsession = "none"
    /\ bopened = 0
    /\ btasks = <<>>
    /\ bqueries = <<>>
    /\ bdone = <<>>
    /\ bret = [kind |-> "none", value |-> <<>>]
    /\ bpc = "call"
    /\ MIdle /\ EIdle /\ HIdle /\ AIdle /\ DIdle

\* `async with PrimoAPIClient(...) as client` is entered: __aenter__, lines 36-38
BEnter ==
    /\ bpc = "call"
    /\ bsession' = "open"
    /\ bopened' = bopened + 1
    /\ bpc' = "body"
    /\ UNCHANGED <<bentry, binput, bkey, btasks, bqueries, bdone, bret, mvars, evars,
                   hvars, avars, dvars>>

\* lines 495-496 on an argument that cannot be iterated: TypeError inside the
\* `async with` block
BCreateFails ==
    /\ bpc = "body" /\ binput.kind = "notlist"
    /\ bpc' = "unwind"
    /\ UNCHANGED <<bentry, binput, bkey, bsession, bopened, btasks, bqueries, bdone,
                   bret, mvars, evars, hvars, avars, dvars>>

\* lines 461, 477 and 494-496: the coroutines are created, none has run yet
BCreate ==
    /\ bpc = "body" /\ binput.kind # "notlist"
    /\ btasks' = [i \in 1..Len(binput.items) |-> Task(OpOf(bentry), binput.items[i])]
    /\ bpc' = "await"
    /\ UNCHANGED <<bentry, binput, bkey, bsession, bopened, bqueries, bdone, bret,
                   mvars, evars, hvars, avars, dvars>>

\* what the event loop records when coroutine i has run up to t
Stepped(i, t) ==
    /\ btasks' = [btasks EXCEPT ![i] = t]
    /\ bqueries' = IF t.pc = "await"
                   THEN Append(bqueries, [task |-> i, item |-> t.idx, session |-> bsession])
                   ELSE bqueries
    /\ bdone' = IF t.pc \in {"done", "raised"} THEN Append(bdone, i) ELSE bdone

\* the event loop runs coroutine i for the first time
BTaskStart(i) ==
    /\ btasks[i].pc = "new"
    /\ Stepped(i, StartTask(btasks[i], bsession, bkey))
    /\ UNCHANGED <<bentry, binput, bkey, bsession, bopened, bret, bpc, mvars, evars,
                   hvars, avars, dvars>>

\* the event loop resumes coroutine i with the outcome of its session.get
\* (a session that is not open makes session.get raise)
BTaskReceive(i) ==
    /\ btasks[i].pc = "await"
    /\ \E resp \in BatchResponses :
         /\ bsession # "open" => resp = RespException
         /\ Stepped(i, ReceiveTask(btasks[i], resp, bkey))
    /\ UNCHANGED <<bentry, binput, bkey, bsession, bopened, bret, bpc, mvars, evars,
                   hvars, avars, dvars>>

\* what the entry point hands back for a list of reports
Returned(reports) ==
    IF bentry = "check_multiple_metadata" THEN [kind |-> "list", value |-> reports]
    ELSE [kind |-> "value", value |-> reports]

\* (faulty variant of BGather: the reports are collected as they complete)
BGatherAsCompleted ==
    /\ bpc = "await"
    /\ \A i \in 1..Len(btasks) : btasks[i].pc = "done"
    /\ bret' = Returned([i \in 1..Len(btasks) |-> btasks[bdone[i]].report])
    /\ bpc' = "exit"
    /\ UNCHANGED <<bentry, binput, bkey, bsession, bopened, btasks, bqueries, bdone,
                   mvars, evars, hvars, avars, dvars>>

\* (faulty variant of BGather: the result is handed back without waiting)
BGatherNotAwaited ==
    /\ bpc = "await"
    /\ bret' = Returned([i \in 1..Len(btasks) |-> btasks[i].report])
    /\ bpc' = "exit"
    /\ UNCHANGED <<bentry, binput, bkey, bsession, bopened, btasks, bqueries, bdone,
                   mvars, evars, hvars, avars, dvars>>

\* lines 461, 477 and 498: the await is over when every coroutine has
\* returned; asyncio.gather hands the results back in argument order
BGather ==
    /\ bpc = "await"
    /\ \A i \in 1..Len(btasks) : btasks[i].pc = "done"
    /\ bret' = Returned([i \in 1..Len(btasks) |-> btasks[i].report])
    /\ bpc' = "exit"
    /\ UNCHANGED <<bentry, binput, bkey, bsession, bopened, btasks, bqueries, bdone,
                   mvars, evars, hvars, avars, dvars>>

\* the `async with` block is left, by return or by exception: __aexit__,
\* lines 40-42
BExit ==
    /\ bpc \in {"exit", "unwind"}
    /\ bsession' = IF bsession = "open" THEN "closed" ELSE bsession
    /\ bret' = IF bpc = "unwind" THEN [kind |-> "raised", value |-> <<>>] ELSE bret
    /\ bpc' = IF bpc = "unwind" THEN "raised" ELSE "returned"
    /\ UNCHANGED <<bentry, binput, bkey, bopened, btasks, bqueries, bdone, mvars, evars,
                   hvars, avars, dvars>>

BNext ==
    \/ BEnter \/ BCreateFails \/ BCreate
    \/ \E i \in 1..Len(btasks) : BTaskStart(i)
    \/ \E i \in 1..Len(btasks) : BTaskReceive(i)
    \/ BGather \/ BExit

SpecBatch == BInit /\ [][BNext]_vars

(***************************************************************************)
(* Properties of the convenience functions                                 *)
(***************************************************************************)
\* the report search_by_metadata gives for one record on its own, when its
\* queries are answered by resps in turn
RECURSIVE Feed(_, _, _)
Feed(t, resps, key) ==
    IF t.pc # "await" \/ resps = <<>> THEN t
    ELSE Feed(ReceiveTask(t, Head(resps), key), Tail(resps), key)
RecordReport(md, resps, key) ==
    Feed(StartTask(Task("search_by_metadata", md), "open", key), resps, key).report

\* C12: check_multiple_metadata returns one report per record of the list,
\* the i-th report being the report of the i-th record (it echoes that
\* record and is the report the record and the answers to its own queries
\* determine), in whatever order the coroutines finish and whatever the
\* other records' reports are, error reports included.
C12_ReportsInInputOrder ==
    (bentry = "check_multiple_metadata" /\ bpc = "returned") =>
        /\ bret.kind = "list"
        /\ Len(bret.value) = Len(binput.items)
        /\ \A i \in 1..Len(binput.items) :
             /\ bret.value[i].metadata = binput.items[i]
             /\ bret.value[i] = RecordReport(binput.items[i], btasks[i].resps, bkey)

\* the second record finishes first, with an error report; the first one is
\* matched
C12_Witness ==
    /\ bentry = "check_multiple_metadata" /\ bpc = "returned"
    /\ Len(binput.items) = 2 /\ bdone = <<2, 1>>
    /\ "error" \in bret.value[2].keys
    /\ "error" \notin bret.value[1].keys /\ bret.value[1].found

\* C13: a call of a convenience function opens exactly one session, every
\* query is issued while that session is open, the session is closed when
\* the function is left by return or by exception, and it is closed only
\* after every coroutine of the call has finished.
C13_OneSessionAroundAllQueries ==
    /\ bopened <= 1
    /\ bpc \notin {"off", "call"} => bopened = 1
    /\ \A k \in 1..Len(bqueries) : bqueries[k].session = "open"
    /\ bsession = "none" => btasks = <<>> /\ bqueries = <<>>
    /\ bsession = "closed" => \A i \in 1..Len(btasks) : btasks[i].pc = "done"
    /\ bpc \in {"returned", "raised"} => bsession = "closed"
    /\ bsession = "closed" => bpc \in {"returned", "raised"}

\* two records were queried concurrently and the function has returned
C13_Witness ==
    /\ bpc = "returned" /\ bsession = "closed" /\ bopened = 1
    /\ \E j, k \in 1..Len(bqueries) :
         /\ j < k /\ bqueries[j].task = 2 /\ bqueries[k].task = 1
         /\ bqueries[j].session = "open" /\ bqueries[k].session = "open"

(***************************************************************************)
(* heuristic_parse applied to a text on its own                            *)
(***************************************************************************)
MaxLines == 3      \* longest text, in lines
HeurCalls == 2     \* calls of heuristic_parse on the text

HeurLines == {LTitle, LTerm, LCode, LInstr, LEmail, LEmailPlain, LLower, LBlank}

HInit ==
    /\ htext \in SeqsUpTo(HeurLines, MaxLines)
    /\ hout = <<>>
    /\ hpc = "start"
    /\ MIdle /\ EIdle /\ BIdle /\ AIdle /\ DIdle

\* a call heuristic_parse(text) returns
HeurParse ==
    /\ hpc = "start"
    /\ hout' = Append(hout, heuristic_parse(htext))
    /\ hpc' = IF Len(hout') = HeurCalls THEN "done" ELSE "start"
    /\ UNCHANGED <<htext, mvars, evars, bvars, avars, dvars>>

HNext == HeurParse

SpecHeur == HInit /\ [][HNext]_vars

\* the values a string-valued field can hold that are no string
NotAString == {NONE, ABSENT}
StringFields ==
    {"year", "semester", "class_name", "class_number", "instructor", "university",
     "main_topic"}

FirstEmailDomain(txt) == txt[FirstLine(txt, "email")].email
HasEmail(txt) == \E i \in 1..Len(txt) : txt[i].email # <<>>

\* C18 (as stated): with an .edu address in the text, university is the
\* upper-cased label right before the top-level domain of the first such
\* address, for domains of any number of labels; otherwise it is "Unknown".
C18_UniversityFromEmail ==
    \A k \in 1..Len(hout) :
        hout[k].university =
            IF HasEmail(htext)
            THEN Upper(FirstEmailDomain(htext)[Len(FirstEmailDomain(htext)) - 1])
            ELSE "Unknown"

SemesterEnum == {"Spring", "Summer", "Fall", "Winter", "Unknown"}

\* C19 (as stated): the semester returned by heuristic_parse is one of Spring,
\* Summer, Fall, Winter, Unknown, also when the word is written in another
\* letter case in the text.
C19_SemesterInEnum ==
    \A k \in 1..Len(hout) : hout[k].semester \in SemesterEnum

(***************************************************************************)
(* Properties of normalization and of the fallback's argument              *)
(***************************************************************************)
\* C15 (as stated): when AI extraction fails, heuristic_parse is given the
\* same normalized text that call_llm_for_metadata was given: the page text
\* followed by the table blocks when tables were found, not the page text
\* alone.
C15_FallbackGetsNormalizedText ==
    \A d \in 1..Len(pdf_files) :
        heur_calls[d] > 0 =>
            /\ ai_calls[d] > 0
            /\ heur_arg[d] = ai_arg[d]

(***************************************************************************)
(* _check_availability applied to a result document on its own             *)
(***************************************************************************)
MaxHoldings == 2   \* most holdings of a document

HoldingItems ==
    {<<>>, <<"available">>, <<"checked_out">>, <<"available", "checked_out", "available">>}
HoldingSet == {Holding(loc, it) : loc \in {ABSENT, "King Library"}, it \in HoldingItems}

\* result documents: delivery category, delivery links (one of them with an
\* empty linkURL) and holdings in every combination
AvailDocs ==
    {Doc("dict", FStr("Mind and Behaviour"), FAbsent, FAbsent, dc, ln, hs) :
        dc \in {<<>>, <<"Online Resource">>},
        ln \in {<<>>, <<"">>, <<"https://library.example.edu/1">>},
        hs \in SeqsUpTo(HoldingSet, MaxHoldings)}

AInit ==
    /\ adoc \in AvailDocs
    /\ aout = "none"
    /\ apc = "start"
    /\ MIdle /\ EIdle /\ BIdle /\ HIdle /\ DIdle

\* lines 312-322 and 120-130: the document is judged (line 318) and the
\* status for the caller is derived from the judgment (line 123)
Judge ==
    /\ apc = "start"
    /\ aout' = [availability |-> _check_availability(adoc),
                status |-> LibMatch(PrimoResult(adoc)).availability]
    /\ apc' = "done"
    /\ UNCHANGED <<adoc, mvars, evars, bvars, hvars, dvars>>

ANext == Judge

SpecAvail == AInit /\ [][ANext]_vars

\* the holding items of the document with status "available", as
\* (holding, item) positions
AvailableItems(doc) ==
    {p \in UNION {{<<h, j>> : j \in 1..Len(doc.holdings[h].items)} :
                     h \in 1..Len(doc.holdings)} :
        doc.holdings[p[1]].items[p[2]] = "available"}

Before(x, y) == x[1] < y[1] \/ (x[1] = y[1] /\ x[2] <= y[2])
InOrder(S) ==
    [k \in 1..Cardinality(S) |->
        CHOOSE x \in S : Cardinality({y \in S : Before(y, x)}) = k]

\* the text lines of the pages, and the table regions that give a block: the
\* page's table detection works, the region is not empty and no region
\* before it on the page fails to convert
LinePositions(pages) ==
    UNION {{<<p, j>> : j \in 1..Len(pages[p].lines)} : p \in 1..Len(pages)}
BlockPositions(pages) ==
    {x \in UNION {{<<p, t>> : t \in 1..Len(pages[p].tables)} : p \in 1..Len(pages)} :
        /\ ~pages[x[1]].find_fails
        /\ pages[x[1]].tables[x[2]].status = "ok"
        /\ \A u \in 1..(x[2] - 1) : pages[x[1]].tables[u].status # "raises"}
PageLines(pages) ==
    [k \in 1..Cardinality(LinePositions(pages)) |->
        pages[InOrder(LinePositions(pages))[k][1]].lines[InOrder(LinePositions(pages))[k][2]]]
TableBlocks(pages) ==
    [k \in 1..Cardinality(BlockPositions(pages)) |->
        pages[InOrder(BlockPositions(pages))[k][1]].tables[InOrder(BlockPositions(pages))[k][2]].md]

\* C20: the text given to call_llm_for_metadata is every page text in page
\* order and then, only when a non-empty table was found, the heading and the
\* table blocks in document order, blank-line separated; no block stands
\* before or between page text, and a page whose table detection fails takes
\* away only its own tables.
C20_TablesAfterText ==
    \A d \in 1..Len(pdf_files) :
        ai_calls[d] > 0 =>
            LET a == ai_arg[d]
                L == PageLines(pdf_files[d].pages)
                T == TableBlocks(pdf_files[d].pages)
            IN /\ Len(a) >= Len(L)
               /\ SubSeq(a, 1, Len(L)) = L
               /\ T = <<>> => Len(a) = Len(L)
               /\ T # <<>> =>
                    /\ Len(a) = Len(L) + 2 + 2 * Len(T) - 1
                    /\ a[Len(L) + 1] = LBlank
                    /\ a[Len(L) + 2] = LTablesHeading
                    /\ \A k \in 1..Len(T) : a[Len(L) + 2 * k + 1] = T[k]
                    /\ \A k \in 1..(Len(T) - 1) : a[Len(L) + 2 * k + 2] = LBlank

\* three pages, detection fails on the second: the tables of the first and
\* the third page follow the text, in order
C20_Witness ==
    \E d \in 1..Len(pdf_files) :
        /\ pdf_files[d] = PdfTables /\ ai_calls[d] > 0
        /\ ai_arg[d] = <<LTitle, LCode, LInstr, LBlank, LTablesHeading,
                         LTableA, LBlank, LTableB, LBlank, LTableC>>

(***************************************************************************)
(* Shape of library_matches in the returned report                         *)
(***************************************************************************)
MatchScores == {"1.0", "0.8", "0.0"}

\* C21: in every report search_by_metadata returns, each library_matches
\* entry has a score of 1.0, 0.8 or 0.0; the score is 0.0 exactly when the
\* entry has no matches, 1.0 only with one match, 0.8 only with one to three
\* matches; the entries belong to distinct reading items and follow the
\* order of the reading list, so there are never more of them than reading
\* items (total_materials, where the report carries it).
C21_MatchScoreShape ==
    /\ \A k \in 1..Len(library_matches) :
         /\ library_matches[k].matchScore \in MatchScores
         /\ library_matches[k].matchScore = "0.0" <=> library_matches[k].matches = <<>>
         /\ library_matches[k].matchScore = "1.0" => Len(library_matches[k].matches) = 1
         /\ library_matches[k].matchScore = "0.8" =>
              Len(library_matches[k].matches) \in 1..3
    /\ Len(lm_item) = Len(library_matches)
    /\ \A j, k \in 1..Len(lm_item) : j < k => lm_item[j] < lm_item[k]
    /\ \A k \in 1..Len(lm_item) : lm_item[k] \in 1..Len(RM)
    /\ pc = "done" =>
         /\ \/ report.library_matches = library_matches
            \/ report.library_matches = <<>>
         /\ Len(report.library_matches) <= Len(RM)
         /\ "total_materials" \in report.keys =>
              /\ report.library_matches = library_matches
              /\ Len(report.library_matches) <= report.total_materials

\* a report with one entry per item: a pre-resolved one and a searched one
\* with three matches
C21_Witness ==
    /\ Completed /\ Len(RM) = 2 /\ report.total_materials = 2
    /\ Len(report.library_matches) = 2
    /\ report.library_matches[1].matchScore = "1.0"
    /\ report.library_matches[2].matchScore = "0.8"
    /\ Len(report.library_matches[2].matches) = 3

(***************************************************************************)
(* UFLSyllabiDownloader: the download_pdf calls submitted by run()         *)
(* (florida_pdf_downloader_v2.py)                                          *)
(* A file name is its stem followed by the counters appended to it:        *)
(* <<"ART2500">> is ART2500.pdf, <<"ART2500", 1>> is ART2500_1.pdf.        *)
(***************************************************************************)
MaxPdfs == 3       \* most PDF links submitted

\* max_workers (line 232)
MaxWorkers == 3

\* a pdf_info as lines 142-150 see it: len(title), title.lower() starts with
\* "http", the name lines 146-148 make of the title, the basename of the URL
\* path and whether it ends with ".pdf"
PdfInfo(title_len, title_http, titled, url_filename, url_is_pdf) ==
    [title_len |-> title_len, title_http |-> title_http, titled |-> titled,
     url_filename |-> url_filename, url_is_pdf |-> url_is_pdf]

LongStem == "<200 characters of three bytes each>"

\* the links: two short titles whose URL basenames are ART2500.pdf and
\* ART2500_1.pdf; a URL ending in .PDF; a descriptive title whose name is
\* too long for the file system.  Two links of one kind differ in the
\* directory of their URL.
PdfInfos ==
    { PdfInfo(8, FALSE, <<"Syllabus">>, <<"ART2500">>, TRUE),
      PdfInfo(4, FALSE, <<"Link">>, <<"ART2500", 1>>, TRUE),
      PdfInfo(3, FALSE, <<"PDF">>, <<"ART2500.PDF">>, FALSE),
      PdfInfo(200, FALSE, <<LongStem>>, <<"x">>, TRUE) }

\* the folder before the run: syllabus.pdf is there from an earlier run
Disk == {<<"syllabus">>}

\* lines 145-150
BaseFilename(pdf_info) ==
    IF pdf_info.title_len > 10 /\ ~pdf_info.title_http THEN pdf_info.titled
    ELSE IF pdf_info.url_is_pdf THEN pdf_info.url_filename
    ELSE <<"syllabus">>

\* f"{name}_{counter}{ext}" (lines 157-158)
Suffixed(base_filename, counter) == Append(base_filename, counter)

\* (faulty variant of UniqueFilename: the while loop is missing)
UniqueFilenameUnchecked(base_filename, taken) == base_filename

\* lines 154-159: the first of base, base_1, base_2, ... that is not taken
UniqueFilename(base_filename, taken) ==
    IF base_filename \notin taken THEN base_filename
    ELSE Suffixed(base_filename,
                  CHOOSE c \in 1..(Cardinality(taken) + 1) :
                      /\ Suffixed(base_filename, c) \notin taken
                      /\ \A b \in 1..(c - 1) : Suffixed(base_filename, b) \in taken)

\* file_path.exists() (line 164) raises OSError for a name the file system
\* rejects (ENAMETOOLONG)
StatFails(filename) == filename[1] = LongStem

Worker(pc_, filename, reserved) ==
    [pc |-> pc_, filename |-> filename, reserved |-> reserved]

DInit ==
    /\ dpdfs \in SeqsUpTo(PdfInfos, MaxPdfs) \ {<<>>}
    /\ ddisk = Disk
    /\ downloaded_files = {}
    /\ dworkers = [i \in 1..Len(dpdfs) |-> Worker("queued", <<>>, FALSE)]
    /\ dreleased = {}
    /\ MIdle /\ EIdle /\ BIdle /\ HIdle /\ AIdle

\* the calls a pool thread is executing
Running == {i \in 1..Len(dworkers) : dworkers[i].pc \notin {"queued", "true", "false"}}

\* lines 233-238: a free pool thread takes the next submitted call
DStart(i) ==
    /\ dworkers[i].pc = "queued"
    /\ \A j \in 1..(i - 1) : dworkers[j].pc # "queued"
    /\ Cardinality(Running) < MaxWorkers
    /\ dworkers' = [dworkers EXCEPT ![i].pc = "started"]
    /\ UNCHANGED <<dpdfs, ddisk, downloaded_files, dreleased, mvars, evars, bvars,
                   hvars, avars>>

\* lines 142-170, the block under self.lock in one step: the name is chosen;
\* exists() raises (to the handler, nothing added), or the file exists (the
\* name is added and True is returned), or the name is reserved
DReserve(i) ==
    /\ dworkers[i].pc = "started"
    /\ LET filename == UniqueFilename(BaseFilename(dpdfs[i]), downloaded_files)
       IN IF StatFails(filename)
          THEN /\ dworkers' = [dworkers EXCEPT ![i] = Worker("handler", filename, FALSE)]
               /\ UNCHANGED downloaded_files
          ELSE IF filename \in ddisk
          THEN /\ dworkers' = [dworkers EXCEPT ![i] = Worker("true", filename, FALSE)]
               /\ downloaded_files' = downloaded_files \cup {filename}
          ELSE /\ dworkers' = [dworkers EXCEPT ![i] = Worker("inflight", filename, TRUE)]
               /\ downloaded_files' = downloaded_files \cup {filename}
    /\ UNCHANGED <<dpdfs, ddisk, dreleased, mvars, evars, bvars, hvars, avars>>

\* lines 174-175: session.get or raise_for_status raises
DFetchFails(i) ==
    /\ dworkers[i].pc = "inflight"
    /\ dworkers' = [dworkers EXCEPT ![i].pc = "handler"]
    /\ UNCHANGED <<dpdfs, ddisk, downloaded_files, dreleased, mvars, evars, bvars,
                   hvars, avars>>

\* lines 174-178: the response is there and the file is opened for writing
DOpen(i) ==
    /\ dworkers[i].pc = "inflight"
    /\ ddisk' = ddisk \cup {dworkers[i].filename}
    /\ dworkers' = [dworkers EXCEPT ![i].pc = "writing"]
    /\ UNCHANGED <<dpdfs, downloaded_files, dreleased, mvars, evars, bvars, hvars,
                   avars>>

\* line 179 raises (the disk is full)
DWriteFails(i) ==
    /\ dworkers[i].pc = "writing"
    /\ dworkers' = [dworkers EXCEPT ![i].pc = "handler"]
    /\ UNCHANGED <<dpdfs, ddisk, downloaded_files, dreleased, mvars, evars, bvars,
                   hvars, avars>>

\* lines 179-183
DWritten(i) ==
    /\ dworkers[i].pc = "writing"
    /\ dworkers' = [dworkers EXCEPT ![i].pc = "true"]
    /\ UNCHANGED <<dpdfs, ddisk, downloaded_files, dreleased, mvars, evars, bvars,
                   hvars, avars>>

\* (faulty variant of DRelease: the handler discards base_filename)
DReleaseBase(i) ==
    /\ dworkers[i].pc = "handler"
    /\ downloaded_files' = downloaded_files \ {BaseFilename(dpdfs[i])}
    /\ dreleased' = dreleased \cup
                       {[worker |-> i, filename |-> BaseFilename(dpdfs[i]),
                         removed |-> BaseFilename(dpdfs[i]) \in downloaded_files]}
    /\ dworkers' = [dworkers EXCEPT ![i].pc = "false"]
    /\ UNCHANGED <<dpdfs, ddisk, mvars, evars, bvars, hvars, avars>>

\* lines 185-190: the handler discards the call's filename under the lock
DRelease(i) ==
    /\ dworkers[i].pc = "handler"
    /\ downloaded_files' = downloaded_files \ {dworkers[i].filename}
    /\ dreleased' = dreleased \cup
                       {[worker |-> i, filename |-> dworkers[i].filename,
                         removed |-> dworkers[i].filename \in downloaded_files]}
    /\ dworkers' = [dworkers EXCEPT ![i].pc = "false"]
    /\ UNCHANGED <<dpdfs, ddisk, mvars, evars, bvars, hvars, avars>>

DNext ==
    \E i \in 1..Len(dworkers) :
        \/ DStart(i) \/ DReserve(i) \/ DFetchFails(i) \/ DOpen(i)
        \/ DWriteFails(i) \/ DWritten(i) \/ DRelease(i)

SpecDownload == DInit /\ [][DNext]_vars

\* the download of call i is in flight: its name is reserved and it is
\* fetching or writing
InFlight(i) == dworkers[i].pc \in {"inflight", "writing"}

\* C22: under every interleaving of the download_pdf calls, failing ones
\* included, no two downloads in flight at the same time have the same file
\* name (so no two calls write the same path), a download in flight holds its
\* name in downloaded_files, and a name the except handler takes out of
\* downloaded_files is the name that call reserved itself.
C22_UniqueInFlightNames ==
    /\ \A i, j \in 1..Len(dworkers) :
         (i # j /\ InFlight(i) /\ InFlight(j)) =>
            dworkers[i].filename # dworkers[j].filename
    /\ \A i \in 1..Len(dworkers) :
         InFlight(i) => dworkers[i].filename \in downloaded_files
    /\ \A r \in dreleased :
         r.removed =>
            /\ dworkers[r.worker].reserved
            /\ dworkers[r.worker].filename = r.filename

\* three links to ART2500.pdf: the first download failed and released its
\* name, the third has taken that name while the second is in flight as
\* ART2500_1.pdf
C22_Witness ==
    /\ Len(dworkers) = 3
    /\ dworkers[1].pc = "false" /\ dworkers[1].filename = <<"ART2500">>
    /\ InFlight(2) /\ dworkers[2].filename = <<"ART2500", 1>>
    /\ InFlight(3) /\ dworkers[3].filename = <<"ART2500">>
    /\ \E r \in dreleased : r.worker = 1 /\ r.removed

====
